---- MODULE Spec2Model ----
(***************************************************************************)
(* Subscription service: the subscriptions table (internal/db), the        *)
(* service layer (internal/service) and the HTTP handlers                  *)
(* (internal/handler), with the aggregation over a window of months.       *)
(*                                                                         *)
(* Texts (service names, MM-YYYY parameters) are sequences of one-letter   *)
(* strings.  An optional value (a nil pointer, a NULL column) is the empty *)
(* sequence, a present one a one-element sequence.                         *)
(***************************************************************************)
EXTENDS Integers, Sequences, FiniteSets, TLC

VARIABLES
    store,   \* the subscriptions table: id -> Nil or Some(row)
    dbUp,    \* whether the database answers the queries sent to it
    req,     \* the call or HTTP request being served
    resp,    \* its outcome, NoResponse until it is served
    work     \* what the serving goroutine holds between two repository calls

vars == <<store, dbUp, req, resp, work>>

---------------------------------------------------------------------------
(* Bounds of the model *)

\* number of rows the subscriptions table can hold in the model
MaxSubs == 2
\* the months of the model are January 2024 + 7 * k months, k in 0 .. MaxStep
MaxStep == 2
\* prices offered by the requests are -1 .. MaxPrice
MaxPrice == 1

Ids == 1 .. MaxSubs

Nil == <<>>

Some(v) == <<v>>

---------------------------------------------------------------------------
(* Dates: DATE columns and time.Time values on the first day of a month *)

Date(y, m) == [year |-> y, month |-> m]

\* the month n months after January 2024
MonthAt(n) == Date(2024 + (n \div 12), (n % 12) + 1)

\* 7 months apart: the months of the model fall in the same year, in
\* consecutive years with a smaller month number, and more than a year apart
Dates == {MonthAt(7 * k) : k \in 0 .. MaxStep}

\* a <= b on dates
DateLE(a, b) == a.year < b.year \/ (a.year = b.year /\ a.month <= b.month)

\* time.Time.Before
Before(a, b) == ~DateLE(b, a)

\* time.Time.After
After(a, b) == ~DateLE(a, b)

\* SQL GREATEST and LEAST on dates
GREATEST(a, b) == IF DateLE(a, b) THEN b ELSE a

LEAST(a, b) == IF DateLE(a, b) THEN a ELSE b

\* SQL COALESCE of a nullable column with a default
COALESCE(opt, dflt) == IF opt = Nil THEN dflt ELSE opt[1]

---------------------------------------------------------------------------
(* Texts *)

DigitChars == <<"0", "1", "2", "3", "4", "5", "6", "7", "8", "9">>

IsDigit(c) == \E i \in 1 .. 10 : DigitChars[i] = c

DigitVal(c) == (CHOOSE i \in 1 .. 10 : DigitChars[i] = c) - 1

DigitChar(n) == DigitChars[n + 1]

\* the MM-YYYY text a client writes for a month
FormatMonth(d) ==
    << DigitChar(d.month \div 10), DigitChar(d.month % 10), "-",
       DigitChar(d.year \div 1000), DigitChar((d.year \div 100) % 10),
       DigitChar((d.year \div 10) % 10), DigitChar(d.year % 10) >>

\* MonthYearParses without the range check of the month
MonthYearParsesAnyMonth(param) ==
    /\ Len(param) = 7
    /\ IsDigit(param[1]) /\ IsDigit(param[2])
    /\ param[3] = "-"
    /\ \A i \in 4 .. 7 : IsDigit(param[i])

\* time.Parse("01-2006", param): two digits of a month 1..12, a dash, four
\* digits of a year, and nothing else
MonthYearParses(param) ==
    /\ Len(param) = 7
    /\ IsDigit(param[1]) /\ IsDigit(param[2])
    /\ param[3] = "-"
    /\ \A i \in 4 .. 7 : IsDigit(param[i])
    /\ (DigitVal(param[1]) * 10 + DigitVal(param[2])) \in 1 .. 12

MonthYearValue(param) ==
    Date(DigitVal(param[4]) * 1000 + DigitVal(param[5]) * 100
           + DigitVal(param[6]) * 10 + DigitVal(param[7]),
         DigitVal(param[1]) * 10 + DigitVal(param[2]))

\* handler.parseMonthYear: the parsed month on its first day, or an error
parseMonthYear(param) ==
    IF MonthYearParses(param)
    THEN [err |-> FALSE, t |-> MonthYearValue(param)]
    ELSE [err |-> TRUE, t |-> Date(1, 1)]

\* SQL to_date(text, 'MM-YYYY') on a text of that form: the first day of the month
to_date(text) == MonthYearValue(text)

---------------------------------------------------------------------------
(* Service names: comparison, ORDER BY and ILIKE *)

\* the letters of the model in code-point order
Alphabet == <<" ", "%", "N", "S", "_", "e", "n", "o", "p", "s", "t">>

CharCode(c) == CHOOSE i \in 1 .. Len(Alphabet) : Alphabet[i] = c

UpperChars == <<"N", "S">>

LowerChars == <<"n", "s">>

\* the lower-case form of a letter
Lower(c) ==
    IF \E i \in 1 .. Len(UpperChars) : UpperChars[i] = c
    THEN LowerChars[CHOOSE i \in 1 .. Len(UpperChars) : UpperChars[i] = c]
    ELSE c

\* a <= b in the order of ORDER BY service_name
RECURSIVE TextLE(_, _)
TextLE(a, b) ==
    IF a = <<>> THEN TRUE
    ELSE IF b = <<>> THEN FALSE
    ELSE IF Head(a) = Head(b) THEN TextLE(Tail(a), Tail(b))
    ELSE CharCode(Head(a)) < CharCode(Head(b))

\* SQL: text ILIKE pattern; % stands for any run of letters, _ for any one letter
RECURSIVE ILIKE(_, _)
ILIKE(text, pattern) ==
    IF pattern = <<>> THEN text = <<>>
    ELSE IF Head(pattern) = "%"
         THEN ILIKE(text, Tail(pattern)) \/ (text # <<>> /\ ILIKE(Tail(text), pattern))
         ELSE /\ text # <<>>
              /\ (Head(pattern) = "_" \/ Lower(Head(pattern)) = Lower(Head(text)))
              /\ ILIKE(Tail(text), Tail(pattern))

---------------------------------------------------------------------------
(* internal/db: the subscriptions table and its queries *)

\* user ids that are well-formed UUIDs
UUIDs == {"u1", "u2"}

\* uuid.Parse in the handlers and the cast $3::uuid in the queries
IsUUID(s) == s \in UUIDs

\* the rows of the table
Rows(st) == {id \in Ids : st[id] # Nil}

Row(st, id) == st[id][1]

NoError == "nil"

ErrDB == "connection refused"

ErrUUID == "invalid input syntax for type uuid"

ErrNoRows == "sql: no rows in result set"

ErrNotFound == "subscription not found"

\* the bound parameter $3: NULL for a nil or empty user id
BindUserID(userID) ==
    IF userID # Nil /\ userID[1] # "" THEN Some(userID[1]) ELSE Nil

\* the bound parameter $4: NULL for a nil or empty name, else %name%
BindServiceName(serviceName) ==
    IF serviceName # Nil /\ serviceName[1] # <<>>
    THEN Some(<<"%">> \o serviceName[1] \o <<"%">>)
    ELSE Nil

\* the error of s.db.GetContext / SelectContext: the database does not
\* answer, or it cannot cast $3 to uuid
QueryError(userID, dbOk) ==
    IF ~dbOk THEN ErrDB
    ELSE IF BindUserID(userID) # Nil /\ ~IsUUID(BindUserID(userID)[1]) THEN ErrUUID
    ELSE NoError

\* Overlapping with end_date compared with $2 instead of $1
OverlappingEndAfterTo(row, from, to, uid, sname) ==
    /\ DateLE(row.startDate, to_date(to))
    /\ (row.endDate = Nil \/ DateLE(to_date(to), row.endDate[1]))
    /\ (uid = Nil \/ row.userID = uid[1])
    /\ (sname = Nil \/ ILIKE(row.serviceName, sname[1]))

\* the WHERE clause of both aggregation queries
Overlapping(row, from, to, uid, sname) ==
    /\ DateLE(row.startDate, to_date(to))
    /\ (row.endDate = Nil \/ DateLE(to_date(from), row.endDate[1]))
    /\ (uid = Nil \/ row.userID = uid[1])
    /\ (sname = Nil \/ ILIKE(row.serviceName, sname[1]))

\* AgeYears without the year borrowed when the month number decreases
AgeYearsNoBorrow(hi, lo) == hi.year - lo.year

\* date_part('year', age(hi, lo)) for lo <= hi on the first days of months
AgeYears(hi, lo) ==
    hi.year - lo.year - (IF hi.month < lo.month THEN 1 ELSE 0)

\* AgeMonths without the twelve months of the borrowed year
AgeMonthsNoBorrow(hi, lo) == hi.month - lo.month

\* date_part('month', age(hi, lo)) for lo <= hi on the first days of months
AgeMonths(hi, lo) ==
    IF hi.month < lo.month THEN hi.month - lo.month + 12 ELSE hi.month - lo.month

\* months with an open-ended subscription ended at $1 instead of $2
monthsOpenEndAtFrom(row, from, to) ==
    LET hi == LEAST(COALESCE(row.endDate, to_date(from)), to_date(to))
        lo == GREATEST(row.startDate, to_date(from))
    IN  IF DateLE(lo, hi)
        THEN AgeYears(hi, lo) * 12 + AgeMonths(hi, lo) + 1
        ELSE 0

\* the CASE expression "months" of the aggregation query
months(row, from, to) ==
    LET hi == LEAST(COALESCE(row.endDate, to_date(to)), to_date(to))
        lo == GREATEST(row.startDate, to_date(from))
    IN  IF DateLE(lo, hi)
        THEN AgeYears(hi, lo) * 12 + AgeMonths(hi, lo) + 1
        ELSE 0

\* SUM(price * months) over a set of rows
RECURSIVE SumPriceMonths(_, _, _, _)
SumPriceMonths(st, ids, from, to) ==
    IF ids = {} THEN 0
    ELSE LET id == CHOOSE i \in ids : TRUE
         IN  Row(st, id).price * months(Row(st, id), from, to)
               + SumPriceMonths(st, ids \ {id}, from, to)

\* store.AggregateTotal
AggregateTotal(st, from, to, userID, serviceName, dbOk) ==
    LET uid == BindUserID(userID)
        sname == BindServiceName(serviceName)
        matched == {id \in Rows(st) : Overlapping(Row(st, id), from, to, uid, sname)}
    IN  IF QueryError(userID, dbOk) # NoError
        THEN [total |-> 0, err |-> QueryError(userID, dbOk)]
        ELSE [total |-> SumPriceMonths(st, matched, from, to), err |-> NoError]

\* the orders in which the query can return a set of rows without ORDER BY
AnyOrder(st, ids) ==
    {s \in [1 .. Cardinality(ids) -> ids] : \A i, j \in DOMAIN s : i # j => s[i] # s[j]}

\* the orders in which ORDER BY service_name can return a set of rows
OrderedByServiceName(st, ids) ==
    {s \in [1 .. Cardinality(ids) -> ids] :
        /\ \A i, j \in DOMAIN s : i # j => s[i] # s[j]
        /\ \A i, j \in DOMAIN s :
             i < j => TextLE(Row(st, s[i]).serviceName, Row(st, s[j]).serviceName)}

\* the row of the table as a model.Subscription
Subscription(st, id) ==
    [id |-> id, serviceName |-> Row(st, id).serviceName, price |-> Row(st, id).price,
     userID |-> Row(st, id).userID, startDate |-> Row(st, id).startDate,
     endDate |-> Row(st, id).endDate]

\* store.FindSubscriptionsOverlapping: the results the query can return
FindSubscriptionsOverlapping(st, from, to, userID, serviceName, dbOk) ==
    LET uid == BindUserID(userID)
        sname == BindServiceName(serviceName)
        matched == {id \in Rows(st) : Overlapping(Row(st, id), from, to, uid, sname)}
    IN  IF QueryError(userID, dbOk) # NoError
        THEN {[subs |-> <<>>, err |-> QueryError(userID, dbOk)]}
        ELSE {[subs |-> [i \in DOMAIN s |-> Subscription(st, s[i])], err |-> NoError] :
                 s \in OrderedByServiceName(st, matched)}

---------------------------------------------------------------------------
(* internal/service: the aggregation methods *)

\* AggregateResult with a repository error swallowed
AggregateResultFallback(r) == [total |-> r.total, err |-> NoError, repoCalls |-> 1]

\* subscriptionService.Aggregate on the outcome r of repo.AggregateTotal
AggregateResult(r) ==
    IF r.err # NoError
    THEN [total |-> 0, err |-> r.err, repoCalls |-> 1]
    ELSE [total |-> r.total, err |-> NoError, repoCalls |-> 1]

\* subscriptionService.Aggregate
Aggregate(st, from, to, userID, serviceName, dbOk) ==
    AggregateResult(AggregateTotal(st, from, to, userID, serviceName, dbOk))

\* LoopTotal with the price assigned to total instead of added to it
LoopTotalAssigned(subs, n) == IF n = 0 THEN 0 ELSE subs[n].price

\* total after the loop of AggregateWithDetails has run over subs[1..n]
RECURSIVE LoopTotal(_, _)
LoopTotal(subs, n) ==
    IF n = 0 THEN 0 ELSE LoopTotal(subs, n - 1) + subs[n].price

\* the model.SubscriptionInfo appended in iteration i (counted from 0) of the loop
SubscriptionInfo(i, subscription) ==
    [number |-> i + 1, serviceName |-> subscription.serviceName,
     price |-> subscription.price, userID |-> subscription.userID]

\* DetailsResult with details declared as a nil slice instead of made empty
DetailsResultNilSlice(r) ==
    IF r.err # NoError
    THEN [details |-> Nil, total |-> 0, err |-> r.err, repoCalls |-> 1]
    ELSE [details |-> IF Len(r.subs) = 0 THEN Nil
                      ELSE Some([k \in 1 .. Len(r.subs) |->
                                    SubscriptionInfo(k - 1, r.subs[k])]),
          total |-> LoopTotal(r.subs, Len(r.subs)),
          err |-> NoError, repoCalls |-> 1]

\* subscriptionService.AggregateWithDetails on the outcome r of
\* repo.FindSubscriptionsOverlapping
DetailsResult(r) ==
    IF r.err # NoError
    THEN [details |-> Nil, total |-> 0, err |-> r.err, repoCalls |-> 1]
    ELSE [details |-> Some([k \in 1 .. Len(r.subs) |-> SubscriptionInfo(k - 1, r.subs[k])]),
          total |-> LoopTotal(r.subs, Len(r.subs)),
          err |-> NoError, repoCalls |-> 1]

\* subscriptionService.AggregateWithDetails: the results the call can return
AggregateWithDetails(st, from, to, userID, serviceName, dbOk) ==
    {DetailsResult(r) :
        r \in FindSubscriptionsOverlapping(st, from, to, userID, serviceName, dbOk)}

---------------------------------------------------------------------------
(* internal/handler: what CreateSubscription and UpdateSubscription accept *)

\* strings.TrimSpace(name) == ""
IsBlank(name) == \A i \in 1 .. Len(name) : name[i] = " "

\* PriceAccepted without the check of the price
PriceAcceptedAny(price) == TRUE

\* the check in.Price < 0 does not reject the price
PriceAccepted(price) == ~(price < 0)

\* in.EndDate != nil && *in.EndDate != ""
HasEndDate(in) == in.endDate # Nil /\ in.endDate[1] # <<>>

\* Accepted without the check t.Before(start) of the end date
AcceptedAnyOrder(in) ==
    /\ ~IsBlank(in.serviceName)
    /\ PriceAccepted(in.price)
    /\ IsUUID(in.userID)
    /\ ~parseMonthYear(in.startDate).err
    /\ HasEndDate(in) => ~parseMonthYear(in.endDate[1]).err

\* the validation of a decoded body passes: no 400 is answered
Accepted(in) ==
    /\ ~IsBlank(in.serviceName)
    /\ PriceAccepted(in.price)
    /\ IsUUID(in.userID)
    /\ ~parseMonthYear(in.startDate).err
    /\ HasEndDate(in) =>
          /\ ~parseMonthYear(in.endDate[1]).err
          /\ ~Before(parseMonthYear(in.endDate[1]).t, parseMonthYear(in.startDate).t)

\* the column values of the model.Subscription built from an accepted body
RowOf(in) ==
    [serviceName |-> in.serviceName, price |-> in.price, userID |-> in.userID,
     startDate |-> parseMonthYear(in.startDate).t,
     endDate |-> IF HasEndDate(in) THEN Some(parseMonthYear(in.endDate[1]).t) ELSE Nil]

---------------------------------------------------------------------------
(* Inputs of the model *)

Net == <<"N", "e", "t">>

Spot == <<"S", "p", "o", "t">>

NameInputs == {Net, Spot, <<" ">>}

PriceInputs == (-1) .. MaxPrice

UserInputs == UUIDs \cup {"x"}

\* MM-YYYY texts of the months of the model
MonthTexts == {FormatMonth(d) : d \in Dates}

\* texts that are no MM-YYYY month: a month 13, a one-digit month, YYYY-MM
BadMonthTexts ==
    { <<"1", "3", "-", "2", "0", "2", "4">>,
      <<"1", "-", "2", "0", "2", "4">>,
      <<"2", "0", "2", "4", "-", "0", "1">> }

Bodies ==
    [serviceName : NameInputs, price : PriceInputs, userID : UserInputs,
     startDate : MonthTexts \cup BadMonthTexts,
     endDate : {Nil, Some(<<>>)} \cup {Some(t) : t \in MonthTexts \cup BadMonthTexts}]

\* the rows the handlers can write
StoredRows == {RowOf(in) : in \in {b \in Bodies : Accepted(b)}}

\* the contents the table can have
Tables == [Ids -> {Nil} \cup {Some(row) : row \in StoredRows}]

\* user filters: none, an empty one, a user, and a text that is no UUID
UserFilters == {Nil, Some("u1"), Some("x")}

\* service name filters: none, and one in the other case than the stored names
NameFilters == {Nil, Some(<<"n", "E">>)}

\* calls of subscriptionService.Aggregate with a validated window
AggregateCalls ==
    {c \in [op : {"Aggregate"}, from : MonthTexts, to : MonthTexts,
            userID : UserFilters, serviceName : NameFilters] :
        DateLE(to_date(c.from), to_date(c.to))}

\* the text of an absent query parameter
Absent == <<>>

\* GET /subscriptions/aggregate with any two month texts, or with one of them
\* absent or malformed
AggregateQueries ==
    [op : {"GET /subscriptions/aggregate"}, from : MonthTexts, to : MonthTexts,
     user_id : {"", "u1", "x"}, service_name : {<<>>, <<"n", "E">>}]
    \cup
    {[op |-> "GET /subscriptions/aggregate", from |-> f, to |-> t,
      user_id |-> "", service_name |-> <<>>] :
        f \in MonthTexts \cup BadMonthTexts \cup {Absent},
        t \in MonthTexts \cup BadMonthTexts \cup {Absent}}

NoResponse == [op |-> "none"]

\* the goroutine serving the request has made no repository call yet
Idle == [step |-> "idle"]

---------------------------------------------------------------------------
(* internal/handler: Handler.Aggregate *)

\* the answer of http.Error
HTTPError(q, code, call, result) ==
    [op |-> q.op, status |-> code, body |-> Nil, svcCall |-> call, svcResult |-> result]

\* the model.AggregateResponse written for the result r of the service;
\* subscriptions is the slice as returned, nil (Nil) or not
AggregateResponse(q, userID, r) ==
    [from |-> q.from, to |-> q.to, total |-> r.total, subscriptions |-> r.details,
     user_id |-> IF userID # Nil THEN userID[1] ELSE ""]

\* Handler.Aggregate: the answers the handler can give to the query q
HandleAggregate(st, q, dbOk) ==
    LET userID == IF q.user_id # "" THEN Some(q.user_id) ELSE Nil
        serviceName == IF q.service_name # <<>> THEN Some(q.service_name) ELSE Nil
        call == [from |-> q.from, to |-> q.to, userID |-> userID,
                 serviceName |-> serviceName]
    IN  IF q.from = <<>> \/ q.to = <<>> THEN {HTTPError(q, 400, Nil, Nil)}
        ELSE IF parseMonthYear(q.from).err THEN {HTTPError(q, 400, Nil, Nil)}
        ELSE IF parseMonthYear(q.to).err THEN {HTTPError(q, 400, Nil, Nil)}
        ELSE IF After(parseMonthYear(q.from).t, parseMonthYear(q.to).t)
             THEN {HTTPError(q, 400, Nil, Nil)}
        ELSE {IF r.err # NoError
              THEN HTTPError(q, 500, Some(call), Some(r))
              ELSE [op |-> q.op, status |-> 200,
                    body |-> Some(AggregateResponse(q, userID, r)),
                    svcCall |-> Some(call), svcResult |-> Some(r)] :
                 r \in AggregateWithDetails(st, q.from, q.to, userID, serviceName, dbOk)}

---------------------------------------------------------------------------
(* The aggregation calls on a table of subscriptions *)

InitAggregation ==
    /\ store \in Tables
    /\ dbUp \in BOOLEAN
    /\ req \in AggregateCalls \cup AggregateQueries
    /\ resp = NoResponse
    /\ work = Idle

\* a caller of the service runs subscriptionService.Aggregate
CallAggregate ==
    /\ resp = NoResponse
    /\ req.op = "Aggregate"
    /\ resp' = [op |-> req.op,
                result |-> Aggregate(store, req.from, req.to, req.userID,
                                     req.serviceName, dbUp)]
    /\ UNCHANGED <<store, dbUp, req, work>>

\* the router runs Handler.Aggregate
GetAggregate ==
    /\ resp = NoResponse
    /\ req.op = "GET /subscriptions/aggregate"
    /\ resp' \in HandleAggregate(store, req, dbUp)
    /\ UNCHANGED <<store, dbUp, req, work>>

NextAggregation == CallAggregate \/ GetAggregate

SpecAggregation == InitAggregation /\ [][NextAggregation]_vars

---------------------------------------------------------------------------
(* internal/db: the statements on one row of the table *)

\* the ids that gen_random_uuid() can give to a new row
FreeIds(st) == Ids \ Rows(st)

\* the error of a statement WHERE id = $1: the database does not answer, or
\* it cannot read $1 as a uuid
StatementError(id, dbOk) ==
    IF ~dbOk THEN ErrDB
    ELSE IF id \notin Ids THEN ErrUUID
    ELSE NoError

\* store.Create: the row is inserted under the id the database returns
StoreCreate(st, id, row, dbOk) ==
    IF ~dbOk THEN [table |-> st, id |-> Nil, err |-> ErrDB]
    ELSE [table |-> [st EXCEPT ![id] = Some(row)], id |-> Some(id), err |-> NoError]

\* store.GetByID
StoreGetByID(st, id, dbOk) ==
    IF StatementError(id, dbOk) # NoError
    THEN [sub |-> Nil, err |-> StatementError(id, dbOk)]
    ELSE IF st[id] = Nil THEN [sub |-> Nil, err |-> ErrNoRows]
    ELSE [sub |-> Some(Subscription(st, id)), err |-> NoError]

\* StoreUpdate that inserts the row when no row has the id
StoreUpdateUpsert(st, id, row, dbOk) ==
    IF StatementError(id, dbOk) # NoError
    THEN [table |-> st, err |-> StatementError(id, dbOk)]
    ELSE [table |-> [st EXCEPT ![id] = Some(row)], err |-> NoError]

\* store.Update: sql.ErrNoRows when no row was affected
StoreUpdate(st, id, row, dbOk) ==
    IF StatementError(id, dbOk) # NoError
    THEN [table |-> st, err |-> StatementError(id, dbOk)]
    ELSE IF st[id] = Nil THEN [table |-> st, err |-> ErrNoRows]
    ELSE [table |-> [st EXCEPT ![id] = Some(row)], err |-> NoError]

\* store.Delete: sql.ErrNoRows when no row was affected
StoreDelete(st, id, dbOk) ==
    IF StatementError(id, dbOk) # NoError
    THEN [table |-> st, err |-> StatementError(id, dbOk)]
    ELSE IF st[id] = Nil THEN [table |-> st, err |-> ErrNoRows]
    ELSE [table |-> [st EXCEPT ![id] = Nil], err |-> NoError]

---------------------------------------------------------------------------
(* internal/service: Create, GetByID, Update, Delete *)

\* errors.Is(err, sql.ErrNoRows) turns the error into ErrNotFound
ServiceError(err) == IF err = ErrNoRows THEN ErrNotFound ELSE err

\* subscriptionService.Create
Create(st, id, row, dbOk) == StoreCreate(st, id, row, dbOk)

\* subscriptionService.GetByID
GetByID(st, id, dbOk) ==
    [sub |-> StoreGetByID(st, id, dbOk).sub,
     err |-> ServiceError(StoreGetByID(st, id, dbOk).err)]

\* subscriptionService.Update
Update(st, id, row, dbOk) ==
    [table |-> StoreUpdate(st, id, row, dbOk).table,
     err |-> ServiceError(StoreUpdate(st, id, row, dbOk).err)]

\* subscriptionService.Delete
Delete(st, id, dbOk) ==
    [table |-> StoreDelete(st, id, dbOk).table,
     err |-> ServiceError(StoreDelete(st, id, dbOk).err)]

---------------------------------------------------------------------------
(* internal/handler: the answers of the handlers of one subscription *)

\* a status without a JSON body: http.Error or w.WriteHeader
Status(op, code) == [op |-> op, status |-> code, body |-> Nil]

\* writeJSON(w, sub)
WriteJSON(op, code, sub) == [op |-> op, status |-> code, body |-> Some(sub)]

\* the model.Subscription built from an accepted body, with the id given
SubscriptionOf(id, in) ==
    [id |-> id, serviceName |-> RowOf(in).serviceName, price |-> RowOf(in).price,
     userID |-> RowOf(in).userID, startDate |-> RowOf(in).startDate,
     endDate |-> RowOf(in).endDate]

\* Rejected with the checks after the decoding left out
RejectedUndecoded(body) == body = Nil

\* a body is Nil when it is no JSON of the expected shape; the answer 400 of
\* the decoding and of the validation
Rejected(body) == body = Nil \/ ~Accepted(body[1])

---------------------------------------------------------------------------
(* Inputs of the requests served concurrently *)

\* the first two months of the model, as MM-YYYY texts
WriteMonths == {FormatMonth(MonthAt(7 * k)) : k \in 0 .. 1}

\* bodies of POST and PUT: Nil is a body that does not decode
WriteBodies ==
    {Nil} \cup
    {Some(b) : b \in {in \in Bodies :
        /\ in.serviceName = Net
        /\ in.price \in {-1, MaxPrice}
        /\ in.userID = "u1"
        /\ in.startDate \in WriteMonths \cup {<<"1", "3", "-", "2", "0", "2", "4">>}
        /\ in.endDate \in {Nil} \cup {Some(t) : t \in WriteMonths}}}

\* the {id} of a path: the ids of the model, and 0 for a text that is no UUID
PathIds == 0 .. MaxSubs

\* service_name parameters: none, a part of a name, and a LIKE wildcard
NameParams == {<<>>, <<"n", "E">>, <<"_">>}

\* GET /subscriptions/aggregate over the first two months, or without from
ConcurrentQueries ==
    {q \in AggregateQueries \cup
           [op : {"GET /subscriptions/aggregate"}, from : WriteMonths, to : WriteMonths,
            user_id : {""}, service_name : NameParams] :
        /\ q.from \in WriteMonths \cup {Absent}
        /\ q.to \in WriteMonths
        /\ q.user_id = ""}

\* calls of subscriptionService.Aggregate over the first two months
ConcurrentCalls ==
    {c \in AggregateCalls :
        /\ c.from \in WriteMonths
        /\ c.to \in WriteMonths
        /\ c.userID = Nil
        /\ c.serviceName = Nil}

---------------------------------------------------------------------------
(* internal/handler: Handler.Aggregate around its call of the service *)

\* the checks of from and to answer 400
AggregateRejected(q) ==
    \/ q.from = <<>>
    \/ q.to = <<>>
    \/ parseMonthYear(q.from).err
    \/ parseMonthYear(q.to).err
    \/ After(parseMonthYear(q.from).t, parseMonthYear(q.to).t)

\* the optional filters handed to the service
UserIDOf(q) == IF q.user_id # "" THEN Some(q.user_id) ELSE Nil

ServiceNameOf(q) == IF q.service_name # <<>> THEN Some(q.service_name) ELSE Nil

\* AggregateAnswer from a second retrieval made when the answer is written
AggregateAnswerRetrievedAgain(q, r) ==
    CHOOSE answer \in HandleAggregate(store, q, dbUp) : TRUE

\* the answer written for the result r of h.svc.AggregateWithDetails
AggregateAnswer(q, r) ==
    LET call == [from |-> q.from, to |-> q.to, userID |-> UserIDOf(q),
                 serviceName |-> ServiceNameOf(q)]
    IN  IF r.err # NoError
        THEN HTTPError(q, 500, Some(call), Some(r))
        ELSE [op |-> q.op, status |-> 200,
              body |-> Some(AggregateResponse(q, UserIDOf(q), r)),
              svcCall |-> Some(call), svcResult |-> Some(r)]

---------------------------------------------------------------------------
(* The service under concurrent requests.  One request is followed through  *)
(* its handler; the statements of the requests served by other goroutines   *)
(* fall between its repository calls.                                        *)

Init ==
    /\ store = [id \in Ids |-> Nil]
    /\ dbUp = TRUE
    /\ req = NoResponse
    /\ resp = NoResponse
    /\ work = Idle

\* Handler.CreateSubscription
CreateSubscription(body) ==
    LET op == "POST /subscriptions"
    IN  /\ work = Idle
        /\ req' = [op |-> op, body |-> body]
        /\ IF Rejected(body)
           THEN /\ resp' = Status(op, 400)
                /\ store' = store
           ELSE \E id \in FreeIds(store) :
                  LET r == Create(store, id, RowOf(body[1]), dbUp)
                  IN  /\ store' = r.table
                      /\ resp' = IF r.err # NoError THEN Status(op, 500)
                                 ELSE WriteJSON(op, 201, SubscriptionOf(id, body[1]))
        /\ UNCHANGED <<dbUp, work>>

\* Handler.GetSubscription
GetSubscription(id) ==
    LET op == "GET /subscriptions/{id}"
        r == GetByID(store, id, dbUp)
    IN  /\ work = Idle
        /\ req' = [op |-> op, id |-> id]
        /\ resp' = IF r.err = ErrNotFound THEN Status(op, 404)
                   ELSE IF r.err # NoError THEN Status(op, 500)
                   ELSE WriteJSON(op, 200, r.sub[1])
        /\ UNCHANGED <<store, dbUp, work>>

\* Handler.UpdateSubscription up to the return of h.svc.Update
UpdateSubscription(id, body) ==
    LET op == "PUT /subscriptions/{id}"
    IN  /\ work = Idle
        /\ req' = [op |-> op, id |-> id, body |-> body]
        /\ IF Rejected(body)
           THEN /\ resp' = Status(op, 400)
                /\ UNCHANGED <<store, work>>
           ELSE LET r == Update(store, id, RowOf(body[1]), dbUp)
                IN  /\ store' = r.table
                    /\ IF r.err = ErrNotFound
                       THEN resp' = Status(op, 404) /\ work' = work
                       ELSE IF r.err # NoError
                       THEN resp' = Status(op, 500) /\ work' = work
                       ELSE resp' = NoResponse /\ work' = [step |-> "updated"]
        /\ UNCHANGED dbUp

\* Handler.UpdateSubscription from h.svc.GetByID on
FetchUpdated ==
    LET r == GetByID(store, req.id, dbUp)
    IN  /\ work.step = "updated"
        /\ resp' = IF r.err # NoError THEN Status(req.op, 500)
                   ELSE WriteJSON(req.op, 200, r.sub[1])
        /\ work' = Idle
        /\ UNCHANGED <<store, dbUp, req>>

\* Handler.DeleteSubscription
DeleteSubscription(id) ==
    LET op == "DELETE /subscriptions/{id}"
        r == Delete(store, id, dbUp)
    IN  /\ work = Idle
        /\ req' = [op |-> op, id |-> id]
        /\ store' = r.table
        /\ resp' = IF r.err = ErrNotFound THEN Status(op, 404)
                   ELSE IF r.err # NoError THEN Status(op, 500)
                   ELSE Status(op, 204)
        /\ UNCHANGED <<dbUp, work>>

\* Handler.Aggregate up to the return of repo.FindSubscriptionsOverlapping;
\* work.sequential records the answers the handler can give when nothing
\* else runs from this instant on
QueryAggregate(q) ==
    /\ work = Idle
    /\ req' = q
    /\ IF AggregateRejected(q)
       THEN /\ resp' = HTTPError(q, 400, Nil, Nil)
            /\ work' = work
       ELSE \E r \in FindSubscriptionsOverlapping(store, q.from, q.to, UserIDOf(q),
                                                  ServiceNameOf(q), dbUp) :
              /\ resp' = NoResponse
              /\ work' = [step |-> "retrieved", found |-> r,
                          sequential |-> HandleAggregate(store, q, dbUp)]
    /\ UNCHANGED <<store, dbUp>>

\* Handler.Aggregate from the loop of AggregateWithDetails on
AnswerAggregate ==
    /\ work.step = "retrieved"
    /\ resp' = AggregateAnswer(req, DetailsResult(work.found))
    /\ work' = Idle
    /\ UNCHANGED <<store, dbUp, req>>

\* subscriptionService.Aggregate up to the return of repo.AggregateTotal
TotalAggregate(c) ==
    /\ work = Idle
    /\ req' = c
    /\ resp' = NoResponse
    /\ work' = [step |-> "totalled",
                found |-> AggregateTotal(store, c.from, c.to, c.userID,
                                         c.serviceName, dbUp),
                sequential |-> {[op |-> c.op,
                                 result |-> Aggregate(store, c.from, c.to, c.userID,
                                                      c.serviceName, dbUp)]}]
    /\ UNCHANGED <<store, dbUp>>

\* subscriptionService.Aggregate from the check of the error on
ReturnAggregate ==
    /\ work.step = "totalled"
    /\ resp' = [op |-> req.op, result |-> AggregateResult(work.found)]
    /\ work' = Idle
    /\ UNCHANGED <<store, dbUp, req>>

\* the INSERT of a POST served by another goroutine
OtherCreate(body) ==
    /\ work # Idle
    /\ dbUp
    /\ ~Rejected(body)
    /\ \E id \in FreeIds(store) : store' = StoreCreate(store, id, RowOf(body[1]), dbUp).table
    /\ UNCHANGED <<dbUp, req, resp, work>>

\* the UPDATE of a PUT served by another goroutine
OtherUpdate(id, body) ==
    /\ work # Idle
    /\ ~Rejected(body)
    /\ StoreUpdate(store, id, RowOf(body[1]), dbUp).err = NoError
    /\ store' = StoreUpdate(store, id, RowOf(body[1]), dbUp).table
    /\ UNCHANGED <<dbUp, req, resp, work>>

\* the DELETE of a DELETE served by another goroutine
OtherDelete(id) ==
    /\ work # Idle
    /\ StoreDelete(store, id, dbUp).err = NoError
    /\ store' = StoreDelete(store, id, dbUp).table
    /\ UNCHANGED <<dbUp, req, resp, work>>

\* the connection to the database is lost
DatabaseDown ==
    /\ dbUp
    /\ dbUp' = FALSE
    /\ UNCHANGED <<store, req, resp, work>>

\* the connection to the database is back
DatabaseUp ==
    /\ ~dbUp
    /\ dbUp' = TRUE
    /\ UNCHANGED <<store, req, resp, work>>

Next ==
    \/ \E body \in WriteBodies : CreateSubscription(body)
    \/ \E id \in PathIds : GetSubscription(id)
    \/ \E id \in PathIds, body \in WriteBodies : UpdateSubscription(id, body)
    \/ FetchUpdated
    \/ \E id \in PathIds : DeleteSubscription(id)
    \/ \E q \in ConcurrentQueries : QueryAggregate(q)
    \/ AnswerAggregate
    \/ \E c \in ConcurrentCalls : TotalAggregate(c)
    \/ ReturnAggregate
    \/ \E body \in WriteBodies : OtherCreate(body)
    \/ \E id \in PathIds, body \in WriteBodies : OtherUpdate(id, body)
    \/ \E id \in PathIds : OtherDelete(id)
    \/ DatabaseDown
    \/ DatabaseUp

Spec == Init /\ [][Next]_vars

---------------------------------------------------------------------------
(* The vocabulary of the properties: months, windows, filters, overlap *)

\* the month an MM-YYYY text of the model stands for
MonthOf(text) == CHOOSE d \in Dates : FormatMonth(d) = text

IsMonthText(text) == \E d \in Dates : FormatMonth(d) = text

Earlier(a, b) == a.year * 12 + a.month < b.year * 12 + b.month

MaxDate(a, b) == IF Earlier(a, b) THEN b ELSE a

MinDate(a, b) == IF Earlier(a, b) THEN a ELSE b

\* the months a subscription and the window from .. to have in common
overlapMonths(sub, from, to) ==
    LET effectiveEnd == IF sub.endDate # Nil THEN sub.endDate[1] ELSE to
        lo == MaxDate(sub.startDate, from)
        hi == MinDate(effectiveEnd, to)
    IN  IF Earlier(hi, lo) THEN 0
        ELSE (hi.year - lo.year) * 12 + (hi.month - lo.month) + 1

\* f, compared without regard to case, is a contiguous part of name
ContainsIgnoringCase(name, f) ==
    \E i \in 0 .. (Len(name) - Len(f)) :
        \A j \in 1 .. Len(f) : Lower(name[i + j]) = Lower(f[j])

\* the subscription passes the optional user and service name filters
PassesFilters(sub, userFilter, nameFilter) ==
    /\ (userFilter = Nil \/ sub.userID = userFilter[1])
    /\ (nameFilter = Nil \/ ContainsIgnoringCase(sub.serviceName, nameFilter[1]))

\* the subscription is a candidate: startDate <= to and endDate absent or >= from
Candidate(sub, from, to) ==
    /\ ~Earlier(to, sub.startDate)
    /\ (sub.endDate = Nil \/ ~Earlier(sub.endDate[1], from))

\* the ids of the candidates that pass the filters
Retrieved(from, to, userFilter, nameFilter) ==
    {id \in Ids : /\ store[id] # Nil
                  /\ Candidate(store[id][1], from, to)
                  /\ PassesFilters(store[id][1], userFilter, nameFilter)}

\* sum of price * overlapMonths over the stored subscriptions 1 .. n that pass the filters
RECURSIVE WeightedSum(_, _, _, _, _)
WeightedSum(n, from, to, userFilter, nameFilter) ==
    IF n = 0 THEN 0
    ELSE WeightedSum(n - 1, from, to, userFilter, nameFilter)
         + (IF store[n] # Nil /\ PassesFilters(store[n][1], userFilter, nameFilter)
            THEN store[n][1].price * overlapMonths(store[n][1], from, to)
            ELSE 0)

\* sum of the nominal prices of the stored subscriptions 1 .. n that are in ids
RECURSIVE PriceSum(_, _)
PriceSum(n, ids) ==
    IF n = 0 THEN 0
    ELSE PriceSum(n - 1, ids) + (IF n \in ids THEN store[n][1].price ELSE 0)

\* the request is a call of subscriptionService.Aggregate and has been served
AggregateServed == resp.op = "Aggregate"

\* the request is a GET /subscriptions/aggregate and has been answered
QueryAnswered == resp.op = "GET /subscriptions/aggregate"

\* the filters of the request
UserFilterOf(r) ==
    IF r.op = "Aggregate" THEN r.userID
    ELSE IF r.user_id # "" THEN Some(r.user_id) ELSE Nil

NameFilterOf(r) ==
    IF r.op = "Aggregate" THEN r.serviceName
    ELSE IF r.service_name # <<>> THEN Some(r.service_name) ELSE Nil

\* the request names a window of two months with from <= to
ValidWindow ==
    /\ IsMonthText(req.from) /\ IsMonthText(req.to)
    /\ ~Earlier(MonthOf(req.to), MonthOf(req.from))

\* the rows of the breakdown are those of the subscriptions ids, in some order
ListsExactly(details, ids) ==
    \E s \in [1 .. Len(details) -> ids] :
        /\ \A id \in ids : \E k \in DOMAIN s : s[k] = id
        /\ \A i, j \in DOMAIN s : i # j => s[i] # s[j]
        /\ \A k \in DOMAIN s :
             /\ details[k].serviceName = store[s[k]][1].serviceName
             /\ details[k].price = store[s[k]][1].price
             /\ details[k].userID = store[s[k]][1].userID

---------------------------------------------------------------------------
(* The properties *)

\* C1: whenever subscriptionService.Aggregate returns without error, its total is
\* the sum over the stored subscriptions passing the filters of
\* price * overlapMonths, overlapMonths being 0 if hi < lo and else
\* (hi.year - lo.year) * 12 + (hi.month - lo.month) + 1.
C1_AggregateIsWeightedSum ==
    (AggregateServed /\ resp.result.err = NoError) =>
        resp.result.total =
            WeightedSum(MaxSubs, MonthOf(req.from), MonthOf(req.to),
                        UserFilterOf(req), NameFilterOf(req))

\* C1 witness: Aggregate has summed two subscriptions with different overlaps, one
\* of them open-ended, over a window that ends in a later year with a smaller
\* month number than it starts.
C1_Witness ==
    /\ AggregateServed /\ resp.result.err = NoError
    /\ MonthOf(req.to).year > MonthOf(req.from).year
    /\ MonthOf(req.to).month < MonthOf(req.from).month
    /\ \E a, b \in Retrieved(MonthOf(req.from), MonthOf(req.to),
                             UserFilterOf(req), NameFilterOf(req)) :
          /\ store[a][1].endDate = Nil /\ store[a][1].price > 0
          /\ store[b][1].endDate # Nil /\ store[b][1].price > 0
          /\ overlapMonths(store[a][1], MonthOf(req.from), MonthOf(req.to))
               > overlapMonths(store[b][1], MonthOf(req.from), MonthOf(req.to))
    /\ resp.result.total > 0

\* C2: the total answered by GET /subscriptions/aggregate is the sum of
\* price * overlapMonths over the subscriptions of its breakdown.
C2_AnsweredTotalIsWeightedSum ==
    (QueryAnswered /\ resp.status = 200) =>
        resp.body[1].total =
            WeightedSum(MaxSubs, MonthOf(req.from), MonthOf(req.to),
                        UserFilterOf(req), NameFilterOf(req))

\* C3: the total of AggregateWithDetails is the plain sum of the nominal prices of
\* the retrieved subscriptions, and each row of the breakdown carries the nominal
\* price of its subscription.
C3_DetailsTotalIsPriceSum ==
    (QueryAnswered /\ resp.svcResult # Nil /\ resp.svcResult[1].err = NoError) =>
        LET ids == Retrieved(MonthOf(req.from), MonthOf(req.to),
                             UserFilterOf(req), NameFilterOf(req))
        IN  /\ resp.svcResult[1].total = PriceSum(MaxSubs, ids)
            /\ ListsExactly(resp.svcResult[1].details[1], ids)

\* C3 witness: two subscriptions with positive prices retrieved for a window of
\* several months, in which both are active for more than one month.
C3_Witness ==
    /\ QueryAnswered /\ resp.status = 200
    /\ Len(resp.svcResult[1].details[1]) = 2
    /\ \A id \in Ids :
          /\ store[id] # Nil
          /\ store[id][1].price > 0
          /\ overlapMonths(store[id][1], MonthOf(req.from), MonthOf(req.to)) > 1
    /\ resp.svcResult[1].total = 2

\* C4: the breakdown of AggregateWithDetails has one row per retrieved subscription,
\* in ascending serviceName order, and the row at position k carries number k.
C4_BreakdownOrderedAndNumbered ==
    (QueryAnswered /\ resp.svcResult # Nil /\ resp.svcResult[1].err = NoError) =>
        LET details == resp.svcResult[1].details[1]
            ids == Retrieved(MonthOf(req.from), MonthOf(req.to),
                             UserFilterOf(req), NameFilterOf(req))
        IN  /\ Len(details) = Cardinality(ids)
            /\ ListsExactly(details, ids)
            /\ \A k \in 1 .. Len(details) : details[k].number = k
            /\ \A i, j \in 1 .. Len(details) :
                 i < j => TextLE(details[i].serviceName, details[j].serviceName)

\* C4 witness: the subscription created second comes first in the breakdown.
C4_Witness ==
    /\ QueryAnswered /\ resp.status = 200
    /\ Len(resp.body[1].subscriptions[1]) = 2
    /\ store[1] # Nil /\ store[1][1].serviceName = Spot
    /\ store[2] # Nil /\ store[2][1].serviceName = Net
    /\ resp.body[1].subscriptions[1][1].serviceName = Net
    /\ resp.body[1].subscriptions[1][2].number = 2

\* C5: for a window from <= to and no filter, the WHERE clause of the queries
\* selects a stored subscription if and only if its overlapMonths is > 0; the
\* breakdown answered without filters lists exactly the subscriptions with
\* overlapMonths > 0.
C5_SelectedIffOverlapping ==
    ValidWindow =>
        /\ \A id \in Rows(store) :
              Overlapping(Row(store, id), req.from, req.to, Nil, Nil)
                 <=> overlapMonths(Row(store, id), MonthOf(req.from), MonthOf(req.to)) > 0
        /\ (QueryAnswered /\ resp.status = 200
              /\ UserFilterOf(req) = Nil /\ NameFilterOf(req) = Nil) =>
              ListsExactly(resp.body[1].subscriptions[1],
                           {id \in Rows(store) :
                               overlapMonths(Row(store, id), MonthOf(req.from),
                                             MonthOf(req.to)) > 0})

\* C5 witness: of two stored subscriptions, one ended before the window and the
\* other starts after it, and the breakdown answered without filters is empty.
C5_Witness ==
    /\ QueryAnswered /\ resp.status = 200
    /\ UserFilterOf(req) = Nil /\ NameFilterOf(req) = Nil
    /\ \E a, b \in Rows(store) :
          /\ Row(store, a).endDate # Nil
          /\ Earlier(Row(store, a).endDate[1], MonthOf(req.from))
          /\ Earlier(MonthOf(req.to), Row(store, b).startDate)
    /\ resp.body[1].subscriptions = Some(<<>>)

\* C6: widening the window never decreases the total of Aggregate: for the same
\* table and filters, every window from' <= from <= to <= to' has a total >= the
\* one returned for from .. to.
C6_WideningNeverDecreases ==
    (AggregateServed /\ resp.result.err = NoError) =>
        \A f, t \in MonthTexts :
            (/\ ~Earlier(MonthOf(req.from), MonthOf(f))
             /\ ~Earlier(MonthOf(t), MonthOf(req.to))) =>
                Aggregate(store, f, t, req.userID, req.serviceName, dbUp).total
                    >= resp.result.total

\* C6 witness: Aggregate returned a positive total for a window that can be widened
\* on both sides, and a wider window has a greater total.
C6_Witness ==
    /\ AggregateServed /\ resp.result.err = NoError
    /\ resp.result.total > 0
    /\ \E f, t \in MonthTexts :
          /\ Earlier(MonthOf(f), MonthOf(req.from))
          /\ Earlier(MonthOf(req.to), MonthOf(t))
          /\ Aggregate(store, f, t, req.userID, req.serviceName, dbUp).total
               > resp.result.total

\* C7: the total of Aggregate with a user filter is <= the total for the same
\* table, window and service name filter without the user filter.
C7_UserFilterNeverIncreases ==
    (AggregateServed /\ resp.result.err = NoError /\ req.userID # Nil) =>
        resp.result.total
            <= Aggregate(store, req.from, req.to, Nil, req.serviceName, dbUp).total

\* C7 witness: Aggregate filtered by a user returned a positive total that is
\* smaller than the unfiltered one, another user's subscription being active too.
C7_Witness ==
    /\ AggregateServed /\ resp.result.err = NoError
    /\ req.userID = Some("u1")
    /\ resp.result.total > 0
    /\ \E id \in Rows(store) : Row(store, id).userID = "u2"
    /\ resp.result.total
         < Aggregate(store, req.from, req.to, Nil, req.serviceName, dbUp).total

C9_RepositoryErrorIsReturned ==
    (QueryError(UserFilterOf(req), dbUp) # NoError) =>
        /\ AggregateServed =>
              resp.result = [total |-> 0, err |-> QueryError(UserFilterOf(req), dbUp),
                             repoCalls |-> 1]
        /\ (QueryAnswered /\ resp.svcCall # Nil) =>
              /\ resp.svcResult # Nil
              /\ resp.svcResult[1] =
                    [details |-> Nil, total |-> 0,
                     err |-> QueryError(UserFilterOf(req), dbUp), repoCalls |-> 1]
              /\ resp.status = 500 /\ resp.body = Nil

\* C9 witness: the database does not answer while subscriptions with a positive
\* price are active in the window, and Aggregate returns the error.
C9_Witness ==
    /\ AggregateServed /\ ~dbUp
    /\ \E id \in Retrieved(MonthOf(req.from), MonthOf(req.to),
                           UserFilterOf(req), NameFilterOf(req)) :
          store[id][1].price > 0
    /\ resp.result.err = ErrDB /\ resp.result.total = 0

\* C10: Handler.Aggregate calls AggregateWithDetails only with two MM-YYYY months
\* with from <= to, passed on as received; a request with from or to absent or
\* malformed, or from after to, is answered 400 without a call of the service.
C10_InvalidWindowNeverReachesService ==
    QueryAnswered =>
        /\ resp.svcCall # Nil =>
              /\ IsMonthText(resp.svcCall[1].from) /\ IsMonthText(resp.svcCall[1].to)
              /\ ~Earlier(MonthOf(resp.svcCall[1].to), MonthOf(resp.svcCall[1].from))
              /\ resp.svcCall[1].from = req.from /\ resp.svcCall[1].to = req.to
        /\ ~ValidWindow => (resp.status = 400 /\ resp.svcCall = Nil /\ resp.svcResult = Nil)

\* C10 witness: a query whose from is a later month than its to has been answered
\* 400 without a call of the service.
C10_Witness ==
    /\ QueryAnswered /\ resp.status = 400 /\ resp.svcCall = Nil
    /\ IsMonthText(req.from) /\ IsMonthText(req.to)
    /\ Earlier(MonthOf(req.to), MonthOf(req.from))

---------------------------------------------------------------------------
(* Claims on the service under concurrent requests *)

\* the end date of a row is absent or not before its start date, and both
\* dates are months of a year (the model keeps no day: parseMonthYear and
\* to_date give the first day)
DatesOrdered(row) ==
    /\ row.startDate.month \in 1 .. 12
    /\ row.endDate # Nil =>
          /\ row.endDate[1].month \in 1 .. 12
          /\ ~Earlier(row.endDate[1], row.startDate)

\* the body decodes, and its start date is no month or its end date is no
\* month or a month before the start date
ViolatesDates(body) ==
    /\ body # Nil
    /\ \/ ~IsMonthText(body[1].startDate)
       \/ /\ body[1].endDate # Nil
          /\ \/ ~IsMonthText(body[1].endDate[1])
             \/ Earlier(MonthOf(body[1].endDate[1]), MonthOf(body[1].startDate))

\* a step in which a handler starts to serve the request req'
Serves(op) ==
    /\ work = Idle
    /\ dbUp' = dbUp
    /\ req'.op = op

\* C11: whatever requests were served, every stored subscription has an end
\* date that is absent or not before its start date, both on the first day
\* of a month; a POST or PUT whose dates violate this is answered 400 and
\* leaves the table as it was.
C11_StoredDatesOrdered ==
    /\ [](\A id \in Rows(store) : DatesOrdered(Row(store, id)))
    /\ [][((Serves("POST /subscriptions") \/ Serves("PUT /subscriptions/{id}"))
             /\ ViolatesDates(req'.body))
           => (resp'.status = 400 /\ store' = store)]_vars

\* a PUT with an end date before its start date was answered 400 while the
\* row it names has an end date
C11_Witness ==
    /\ req.op = "PUT /subscriptions/{id}"
    /\ req.id \in Rows(store)
    /\ Row(store, req.id).endDate # Nil
    /\ req.body # Nil
    /\ IsMonthText(req.body[1].startDate)
    /\ ViolatesDates(req.body)
    /\ resp.op = req.op
    /\ resp.status = 400

\* C12: in every content of the table that POST, PUT and DELETE requests can
\* produce, subscriptionService.Aggregate returns a total that is not
\* negative, for every window and every filter.
C12_TotalNeverNegative ==
    \A c \in AggregateCalls :
        Aggregate(store, c.from, c.to, c.userID, c.serviceName, dbUp).total >= 0

\* Aggregate returned a total above zero on a table that was written
C12_Witness ==
    /\ resp.op = "Aggregate"
    /\ resp.result.total > 0
    /\ Rows(store) # {}

\* the ids of the subscriptions in a result of FindSubscriptionsOverlapping
FoundIds(r) == {r.subs[k].id : k \in DOMAIN r.subs}

\* C13: for every non-empty service name filter f, whatever its characters,
\* and every stored subscription that overlaps the window, the subscription is
\* retrieved by FindSubscriptionsOverlapping, and counted by AggregateTotal,
\* exactly when f, compared without regard to case, is a contiguous part of
\* its service name.
C13_NameFilterIsSubstring ==
    \A f \in NameParams \ {<<>>} : \A from \in WriteMonths, to \in WriteMonths :
        ~Earlier(MonthOf(to), MonthOf(from)) =>
          /\ \A r \in FindSubscriptionsOverlapping(store, from, to, Nil, Some(f), TRUE) :
                FoundIds(r) = Retrieved(MonthOf(from), MonthOf(to), Nil, Some(f))
          /\ AggregateTotal(store, from, to, Nil, Some(f), TRUE).total
                = WeightedSum(MaxSubs, MonthOf(from), MonthOf(to), Nil, Some(f))

\* a step in which an aggregation starts: it makes its retrieval, or is
\* answered 400 without one
AggregationStarts == Serves("GET /subscriptions/aggregate") \/ Serves("Aggregate")

\* a step in which an aggregation that made its retrieval gives its result
AggregationEnds ==
    /\ work.step \in {"retrieved", "totalled"}
    /\ work' = Idle

\* C14: with the statements of other requests falling anywhere between the
\* steps of an aggregation, no step of Aggregate or of the aggregate handler
\* changes the table, the result is built from the one retrieval the call
\* made, and it is a result that the same call gives when it runs alone on the
\* table as it was at the instant of that retrieval.
C14_AggregationReadsOnce ==
    [][/\ (AggregationStarts \/ AggregationEnds) => store' = store
       /\ AggregationEnds =>
            /\ resp' \in work.sequential
            /\ (resp'.op = "Aggregate" => resp'.result.repoCalls = 1)
            /\ (resp'.op # "Aggregate" => resp'.svcResult[1].repoCalls = 1)]_vars

\* an aggregate query was answered with a result that is no longer a result
\* on the table: the table was written between the retrieval and the answer
C14_Witness ==
    /\ resp.op = "GET /subscriptions/aggregate"
    /\ resp.status = 200
    /\ resp.body[1].total > 0
    /\ resp \notin HandleAggregate(store, req, dbUp)

---------------------------------------------------------------------------
(* Claims on the two totals of one window *)

\* C15: on a table whose prices are not negative and whose end dates are
\* absent or not before the start dates, for every window with from <= to and
\* every filter, the total of AggregateWithDetails is at most the total of
\* Aggregate for the same arguments, and the two are equal when from and to
\* are the same month.
C15_DetailsTotalAtMostAggregate ==
    /\ (QueryAnswered /\ resp.svcResult # Nil) =>
          LET a == Aggregate(store, req.from, req.to, UserFilterOf(req),
                             NameFilterOf(req), dbUp)
          IN  /\ resp.svcResult[1].total <= a.total
              /\ req.from = req.to => resp.svcResult[1].total = a.total
    /\ AggregateServed =>
          \A d \in AggregateWithDetails(store, req.from, req.to, UserFilterOf(req),
                                        NameFilterOf(req), dbUp) :
              /\ d.total <= resp.result.total
              /\ req.from = req.to => d.total = resp.result.total

\* a query over more than one month was answered a total above zero and
\* below the total of Aggregate
C15_Witness ==
    /\ QueryAnswered
    /\ resp.status = 200
    /\ req.from # req.to
    /\ resp.svcResult[1].total > 0
    /\ resp.svcResult[1].total
         < Aggregate(store, req.from, req.to, UserFilterOf(req), NameFilterOf(req),
                     dbUp).total

---------------------------------------------------------------------------
(* Claims on the requests that name one subscription *)

\* a step in which the handler of a PUT whose update was applied answers
UpdateAnswered ==
    /\ work.step = "updated"
    /\ work' = Idle

\* C16: whatever other requests on the same id are served meanwhile, once
\* the update of a PUT has been applied the handler answers 200 with the
\* record holding exactly the values of that PUT; it answers no error after
\* its own update (here: while the database answers).
C16_UpdateAnsweredWithOwnValues ==
    [][(UpdateAnswered /\ dbUp) =>
          /\ resp'.status = 200
          /\ resp'.body = Some(SubscriptionOf(req.id, req.body[1]))]_vars

\* the id is a UUID that no row of the table has
NotInStore(id) == id \in Ids /\ store[id] = Nil

\* a step in which a GET, a DELETE or a PUT with an accepted body starts to be
\* served for an id that no row has
ServesAbsentId ==
    /\ \/ Serves("GET /subscriptions/{id}")
       \/ Serves("DELETE /subscriptions/{id}")
       \/ (Serves("PUT /subscriptions/{id}") /\ ~Rejected(req'.body))
    /\ NotInStore(req'.id)

====
